---- MODULE Spec2Model ----
(***************************************************************************)
(* Caption timing/segmentation engine and background alignment of the     *)
(* story-to-video pipeline.                                                *)
(*                                                                         *)
(* Times are integers counting tenths of a second.  A word's text is a     *)
(* sequence of one-character strings, so that rstrip() and endswith() are  *)
(* computed on characters as the code computes them.                       *)
(***************************************************************************)
EXTENDS Integers, Sequences, FiniteSets, TLC

VARIABLES
    words,      \* Transcript.words: the word timings, in order
    op,         \* the operation that produced the current result
    arg,        \* its words_per_segment argument (None when not given)
    segments,   \* the list of CaptionSegment it returned
    clips,      \* the list of caption clips generate_captions returned
    error,      \* the exception the operation raised, or "none"
    bg,         \* prepare_background: its inputs and the prepared clip
    pipe,       \* Pipeline.process_story: the run in progress and its effects
    call,       \* one call of a function: its inputs, its progress, its result
    dl,         \* the YouTubeDownloader instances and the index file they share
    fs          \* the files that concurrent pipelines read, write and delete

vars == <<words, op, arg, segments, clips, error, bg, pipe, call, dl, fs>>

(***************************************************************************)
(* Bounds of the model.                                                    *)
(***************************************************************************)
MaxWords == 3       \* longest transcript
MaxN == 3           \* largest words_per_segment
MaxSource == 10     \* longest background source, in seconds
MaxTarget == 25     \* longest narration audio, in seconds

\* The instants a word may start or end at, in tenths of a second.
Times == {0, 5, 10, 13}

\* The characters str.rstrip() removes.
Whitespace == {" ", "\t", "\n"}

\* The word texts a transcript may hold: "Hello", "world.", "Bye.", "why?",
\* "no! " and "and,": a plain word, each of the three sentence marks, a mark
\* followed by whitespace, and a comma.
Hello == <<"H", "e", "l", "l", "o">>
World == <<"w", "o", "r", "l", "d", ".">>
Bye == <<"B", "y", "e", ".">>
Why == <<"w", "h", "y", "?">>
No == <<"n", "o", "!", " ">>
AndComma == <<"a", "n", "d", ",">>

WordTexts == {Hello, World, Bye, Why, No, AndComma}

\* An optional words_per_segment: None, or <<n>> for the integer n.
None == <<>>

Min(a, b) == IF a <= b THEN a ELSE b

(***************************************************************************)
(* models/caption.py: WordTiming, CaptionSegment                           *)
(***************************************************************************)
WordTiming(w, s, e) == [word |-> w, start_time |-> s, end_time |-> e]

CaptionSegment(group) ==
    [ words      |-> group,
      start_time |-> group[1].start_time,
      end_time   |-> group[Len(group)].end_time ]

\* Python's list slice xs[i : j] for 0 <= i (0-based, j exclusive).
Slice(xs, i, j) == SubSeq(xs, i + 1, Min(j, Len(xs)))

(***************************************************************************)
(* Transcript.get_segments: fixed-size grouping.  range(0, len, n) raises  *)
(* ValueError for n = 0 and is empty for n < 0.                            *)
(***************************************************************************)
RECURSIVE FixedLoop(_, _, _)
FixedLoop(ws, n, i) ==
    IF i >= Len(ws) THEN <<>>
    ELSE LET group == Slice(ws, i, i + n)
         IN  (IF group # <<>> THEN <<CaptionSegment(group)>> ELSE <<>>)
             \o FixedLoop(ws, n, i + n)

\* Mutant: the groups shorter than n are dropped (`if len(group) == n`).
get_segments_full_groups_only(ws, n) ==
    IF n < 0 THEN <<>>
    ELSE SelectSeq(FixedLoop(ws, n, 0), LAMBDA seg : Len(seg.words) = n)

get_segments(ws, n) == IF n < 0 THEN <<>> ELSE FixedLoop(ws, n, 0)

get_segments_raises(n) == n = 0

(***************************************************************************)
(* str.rstrip() and str.endswith(tuple of one-character strings)           *)
(***************************************************************************)
RECURSIVE rstrip(_)
rstrip(s) ==
    IF s # <<>> /\ s[Len(s)] \in Whitespace
    THEN rstrip(SubSeq(s, 1, Len(s) - 1))
    ELSE s

endswith(s, marks) == s # <<>> /\ s[Len(s)] \in marks

\* The suffixes get_segments_v2 closes a segment on (caption.py line 85).
V2Marks == {".", "?", "!", ","}

\* The suffixes get_sentence_segments closes a segment on (caption.py line 129).
SentenceMarks == {".", "?", "!"}

(***************************************************************************)
(* The sentence-aware loop shared by get_segments_v2 and                   *)
(* get_sentence_segments: append the word to the running buffer, close the *)
(* buffer as a segment when the word ends with a mark, flush the rest.     *)
(***************************************************************************)
\* Mutant: the words left in the buffer at the end of input are not flushed.
RECURSIVE SentenceLoopNoFlush(_, _, _, _, _)
SentenceLoopNoFlush(ws, i, segs, current, marks) ==
    IF i > Len(ws)
    THEN segs
    ELSE LET cur == Append(current, ws[i])
         IN  IF endswith(rstrip(ws[i].word), marks)
             THEN SentenceLoopNoFlush(ws, i + 1, Append(segs, CaptionSegment(cur)), <<>>, marks)
             ELSE SentenceLoopNoFlush(ws, i + 1, segs, cur, marks)

RECURSIVE SentenceLoop(_, _, _, _, _)
SentenceLoop(ws, i, segs, current, marks) ==
    IF i > Len(ws)
    THEN IF current # <<>> THEN Append(segs, CaptionSegment(current)) ELSE segs
    ELSE LET cur == Append(current, ws[i])
         IN  IF endswith(rstrip(ws[i].word), marks)
             THEN SentenceLoop(ws, i + 1, Append(segs, CaptionSegment(cur)), <<>>, marks)
             ELSE SentenceLoop(ws, i + 1, segs, cur, marks)

\* Mutant: every group size that is given selects the fixed-size grouping
\* (`if words_per_segment is not None`).
get_segments_v2_is_not_none(ws, words_per_segment) ==
    IF words_per_segment # None
    THEN LET n == words_per_segment[1]
         IN  IF n <= 0 THEN <<>> ELSE FixedLoop(ws, n, 0)
    ELSE SentenceLoop(ws, 1, <<>>, <<>>, V2Marks)

\* `if words_per_segment:` is false for None and for 0.
get_segments_v2(ws, words_per_segment) ==
    IF words_per_segment # None /\ words_per_segment[1] # 0
    THEN LET n == words_per_segment[1]
         IN  IF n < 0 THEN <<>> ELSE FixedLoop(ws, n, 0)
    ELSE SentenceLoop(ws, 1, <<>>, <<>>, V2Marks)

get_sentence_segments(ws) == SentenceLoop(ws, 1, <<>>, <<>>, SentenceMarks)

(***************************************************************************)
(* video/captions.py: KaraokeCaptions                                      *)
(***************************************************************************)
VideoWidth == 1080          \* settings.video.width
VideoHeight == 1920         \* settings.video.height
CaptionFontSize == 60       \* settings.caption.font_size
CaptionColor == "white"             \* settings.caption.color
CaptionHighlightColor == "yellow"   \* settings.caption.highlight_color

\* " ".join(w.word for w in ws), as a sequence of characters.
RECURSIVE Join(_)
Join(ws) ==
    IF ws = <<>> THEN <<>>
    ELSE IF Len(ws) = 1 THEN ws[1].word
    ELSE ws[1].word \o <<" ">> \o Join(Tail(ws))

\* textwrap with replace_whitespace and drop_whitespace, for a text that
\* fits one line of max_width characters (every text of the model does:
\* a word has at most six characters): whitespace characters become
\* spaces and the whitespace ending the line is dropped.
_wrap_text_properly(text, max_width) ==
    LET t == rstrip(text)
    IN  [k \in 1..Len(t) |-> IF t[k] \in Whitespace THEN " " ELSE t[k]]

\* One TextClip of _create_simple_karaoke: the padded segment text in the
\* default colour, .with_start(word.start_time).with_end(word.end_time).
SimpleKaraokeClip(padded_text, word) ==
    [ text  |-> padded_text,
      color |-> CaptionColor,
      start |-> word.start_time,
      end   |-> word.end_time ]

\* Mutant: a word of zero duration gets no clip (the skip policy).
_create_simple_karaoke_skip_degenerate(segment, width) ==
    LET full_text == Join(segment.words)
        approx_chars_per_line == (width - 80) \div (CaptionFontSize \div 2)
        wrapped_text == _wrap_text_properly(full_text, approx_chars_per_line)
        padded_text == <<"\n">> \o wrapped_text \o <<"\n">>
        shown == SelectSeq(segment.words, LAMBDA w : w.end_time > w.start_time)
    IN  [i \in 1..Len(shown) |-> SimpleKaraokeClip(padded_text, shown[i])]

\* Mutant: a clip stays on screen until the next word of the segment starts.
_create_simple_karaoke_fill_gaps(segment, width) ==
    LET full_text == Join(segment.words)
        approx_chars_per_line == (width - 80) \div (CaptionFontSize \div 2)
        wrapped_text == _wrap_text_properly(full_text, approx_chars_per_line)
        padded_text == <<"\n">> \o wrapped_text \o <<"\n">>
        k == Len(segment.words)
    IN  [i \in 1..k |->
            [ SimpleKaraokeClip(padded_text, segment.words[i]) EXCEPT
                !.end = IF i < k THEN segment.words[i + 1].start_time ELSE @ ]]

_create_simple_karaoke(segment, width) ==
    LET full_text == Join(segment.words)
        approx_chars_per_line == (width - 80) \div (CaptionFontSize \div 2)
        wrapped_text == _wrap_text_properly(full_text, approx_chars_per_line)
        padded_text == <<"\n">> \o wrapped_text \o <<"\n">>
    IN  [i \in 1..Len(segment.words) |->
            SimpleKaraokeClip(padded_text, segment.words[i])]

\* all_clips.extend(clips) over the segments of get_segments_v2().
RECURSIVE ExtendAll(_, _)
ExtendAll(segs, width) ==
    IF segs = <<>> THEN <<>>
    ELSE _create_simple_karaoke(Head(segs), width) \o ExtendAll(Tail(segs), width)

generate_captions(ws, width) == ExtendAll(get_segments_v2(ws, None), width)

(***************************************************************************)
(* State machine of the caption engine: the transcriber appends word       *)
(* timings, then one operation is applied to the transcript.               *)
(***************************************************************************)
\* No function call is under way.
NoCall == [pc |-> "none"]

\* No downloader has been constructed.
NoDownloaders == [pc |-> "none"]

\* No pipeline is touching a file.
NoFiles == [pc |-> "none"]

\* No background is being prepared.
BgIdle == [pc |-> "idle"]

\* No pipeline has been constructed.
PipeIdle == [pc |-> "none"]

Init ==
    /\ words = <<>>
    /\ op = "none"
    /\ arg = None
    /\ segments = <<>>
    /\ clips = <<>>
    /\ error = "none"
    /\ call = NoCall
    /\ dl = NoDownloaders
    /\ fs = NoFiles
    /\ bg = BgIdle
    /\ pipe = PipeIdle

\* The end of the last word so far: the transcriber reports words in
\* speaking order, a word starting no earlier than the previous one ends.
LastEnd == IF words = <<>> THEN 0 ELSE words[Len(words)].end_time

\* TranscriptionProcessor.transcribe: words.append(WordTiming(...)).
Transcribe ==
    /\ op = "none"
    /\ Len(words) < MaxWords
    /\ \E w \in WordTexts, s \in Times, e \in Times :
          /\ s >= LastEnd
          /\ e >= s
          /\ words' = Append(words, WordTiming(w, s, e))
    /\ UNCHANGED <<op, arg, segments, clips, error, bg, pipe, call, dl, fs>>

GetSegments ==
    /\ op = "none"
    /\ \E n \in (-1)..MaxN :
          /\ arg' = <<n>>
          /\ IF get_segments_raises(n)
             THEN error' = "ValueError" /\ segments' = <<>>
             ELSE error' = "none" /\ segments' = get_segments(words, n)
    /\ op' = "get_segments"
    /\ UNCHANGED <<words, clips, bg, pipe, call, dl, fs>>

GetSegmentsV2 ==
    /\ op = "none"
    /\ \E n \in {None} \cup {<<k>> : k \in (-1)..MaxN} :
          /\ arg' = n
          /\ segments' = get_segments_v2(words, n)
    /\ op' = "get_segments_v2"
    /\ UNCHANGED <<words, clips, error, bg, pipe, call, dl, fs>>

GetSentenceSegments ==
    /\ op = "none"
    /\ segments' = get_sentence_segments(words)
    /\ op' = "get_sentence_segments"
    /\ UNCHANGED <<words, arg, clips, error, bg, pipe, call, dl, fs>>

\* KaraokeCaptions.generate_captions(transcript, video_size): the segments
\* are those of transcript.get_segments_v2().
GenerateCaptions ==
    /\ op = "none"
    /\ segments' = get_segments_v2(words, None)
    /\ clips' = generate_captions(words, VideoWidth)
    /\ op' = "generate_captions"
    /\ UNCHANGED <<words, arg, error, bg, pipe, call, dl, fs>>

Next ==
    \/ Transcribe
    \/ GetSegments
    \/ GetSegmentsV2
    \/ GetSentenceSegments
    \/ GenerateCaptions

Spec == Init /\ [][Next]_vars

(***************************************************************************)
(* video/editor.py: VideoEditor.prepare_background                         *)
(*                                                                         *)
(* Durations are whole seconds.  int(duration / clip.duration) truncates a *)
(* positive quotient, which is the integer quotient.  Crop coordinates are *)
(* kept doubled (x1_twice = 2 * x1) so that the halves stay integers.      *)
(***************************************************************************)
\* The (width, height) of the background sources.
SourceSizes ==
    { <<1920, 1080>>, <<1080, 1920>>, <<1000, 1000>>, <<720, 1281>>,
      <<1281, 720>>, <<608, 1080>>, <<607, 1080>>, <<3, 5>> }

\* duration / clip.duration with clip.duration == 0 raises ZeroDivisionError.
DivisionByZero ==
    [ branch |-> "ZeroDivisionError", loops_needed |-> 0, looped_duration |-> 0,
      trim |-> <<0, 0>>, prepared_duration |-> 0 ]

\* Mutant: the source is trimmed only when strictly longer than the target
\* (`if clip.duration > duration`).
HandleDurationStrict(clip_duration, duration, loop) ==
    IF clip_duration > duration
    THEN [ branch |-> "trim", loops_needed |-> 0,
           looped_duration |-> clip_duration,
           trim |-> <<0, duration>>, prepared_duration |-> duration ]
    ELSE IF loop
    THEN IF clip_duration = 0
         THEN DivisionByZero
         ELSE LET loops_needed == (duration \div clip_duration) + 1
              IN  [ branch |-> "loop", loops_needed |-> loops_needed,
                    looped_duration |-> loops_needed * clip_duration,
                    trim |-> <<0, duration>>, prepared_duration |-> duration ]
    ELSE [ branch |-> "keep", loops_needed |-> 0,
           looped_duration |-> clip_duration,
           trim |-> <<0, clip_duration>>, prepared_duration |-> clip_duration ]

\* Mutant: one copy fewer (`int(duration / clip.duration)` without the + 1).
HandleDurationFloor(clip_duration, duration, loop) ==
    IF clip_duration >= duration
    THEN [ branch |-> "trim", loops_needed |-> 0,
           looped_duration |-> clip_duration,
           trim |-> <<0, duration>>, prepared_duration |-> duration ]
    ELSE IF loop
    THEN IF clip_duration = 0
         THEN DivisionByZero
         ELSE LET loops_needed == duration \div clip_duration
              IN  [ branch |-> "loop", loops_needed |-> loops_needed,
                    looped_duration |-> loops_needed * clip_duration,
                    trim |-> <<0, duration>>, prepared_duration |-> duration ]
    ELSE [ branch |-> "keep", loops_needed |-> 0,
           looped_duration |-> clip_duration,
           trim |-> <<0, clip_duration>>, prepared_duration |-> clip_duration ]

\* Mutant: a source of no duration is played once instead of dividing by it.
HandleDurationGuarded(clip_duration, duration, loop) ==
    IF clip_duration >= duration
    THEN [ branch |-> "trim", loops_needed |-> 0,
           looped_duration |-> clip_duration,
           trim |-> <<0, duration>>, prepared_duration |-> duration ]
    ELSE IF loop
    THEN LET loops_needed ==
                 IF clip_duration = 0 THEN 1 ELSE (duration \div clip_duration) + 1
         IN  [ branch |-> "loop", loops_needed |-> loops_needed,
               looped_duration |-> loops_needed * clip_duration,
               trim |-> <<0, duration>>, prepared_duration |-> duration ]
    ELSE [ branch |-> "keep", loops_needed |-> 0,
           looped_duration |-> clip_duration,
           trim |-> <<0, clip_duration>>, prepared_duration |-> clip_duration ]

\* Lines 177-185: trim, loop or keep the source.
HandleDuration(clip_duration, duration, loop) ==
    IF clip_duration >= duration
    THEN [ branch |-> "trim", loops_needed |-> 0,
           looped_duration |-> clip_duration,
           trim |-> <<0, duration>>, prepared_duration |-> duration ]
    ELSE IF loop
    THEN IF clip_duration = 0
         THEN DivisionByZero
         ELSE LET loops_needed == (duration \div clip_duration) + 1
              IN  [ branch |-> "loop", loops_needed |-> loops_needed,
                    looped_duration |-> loops_needed * clip_duration,
                    trim |-> <<0, duration>>, prepared_duration |-> duration ]
    ELSE [ branch |-> "keep", loops_needed |-> 0,
           looped_duration |-> clip_duration,
           trim |-> <<0, clip_duration>>, prepared_duration |-> clip_duration ]

\* Mutant: the comparison is reversed, so the shorter dimension is cropped.
ScaleToVerticalReversed(w, h) ==
    IF w * VideoHeight < VideoWidth * h
    THEN LET new_width == (h * VideoWidth) \div VideoHeight
         IN  [ crop_w |-> new_width, crop_h |-> h,
               x1_twice |-> w - new_width, x2_twice |-> w + new_width,
               y1_twice |-> 0, y2_twice |-> 2 * h ]
    ELSE LET new_height == (w * VideoHeight) \div VideoWidth
         IN  [ crop_w |-> w, crop_h |-> new_height,
               x1_twice |-> 0, x2_twice |-> 2 * w,
               y1_twice |-> h - new_height, y2_twice |-> h + new_height ]

\* Lines 188-204: source_ratio > target_ratio compares w / h with
\* width / height; int(h * target_ratio) and int(w / target_ratio).
ScaleToVertical(w, h) ==
    IF w * VideoHeight > VideoWidth * h
    THEN LET new_width == (h * VideoWidth) \div VideoHeight
         IN  [ crop_w |-> new_width, crop_h |-> h,
               x1_twice |-> w - new_width, x2_twice |-> w + new_width,
               y1_twice |-> 0, y2_twice |-> 2 * h ]
    ELSE LET new_height == (w * VideoHeight) \div VideoWidth
         IN  [ crop_w |-> w, crop_h |-> new_height,
               x1_twice |-> 0, x2_twice |-> 2 * w,
               y1_twice |-> h - new_height, y2_twice |-> h + new_height ]

\* A background source and a narration duration handed to prepare_background.
BgInputs ==
    [ pc : {"input"}, source_duration : 0..MaxSource, duration : 1..MaxTarget,
      loop : BOOLEAN, size : SourceSizes ]

InitBg ==
    /\ words = <<>>
    /\ op = "none"
    /\ arg = None
    /\ segments = <<>>
    /\ clips = <<>>
    /\ error = "none"
    /\ call = NoCall
    /\ dl = NoDownloaders
    /\ fs = NoFiles
    /\ bg \in BgInputs
    /\ pipe = PipeIdle

\* prepare_background(input_path, output_path, duration, loop): handle the
\* duration, crop to the target ratio, resize, drop the audio, write.
\* The exception of the duration handling leaves the function before
\* anything is cropped or written.
prepare_background(in) ==
    LET plan == HandleDuration(in.source_duration, in.duration, in.loop)
    IN  IF plan.branch = "ZeroDivisionError"
        THEN [ pc |-> "raised",
               source_duration |-> in.source_duration,
               duration |-> in.duration,
               loop |-> in.loop,
               size |-> in.size,
               exception |-> "ZeroDivisionError" ]
        ELSE [ pc |-> "prepared",
               source_duration |-> in.source_duration,
               duration |-> in.duration,
               loop |-> in.loop,
               size |-> in.size,
               plan |-> plan,
               crop |-> ScaleToVertical(in.size[1], in.size[2]),
               resized |-> <<VideoWidth, VideoHeight>>,
               audio |-> FALSE ]

PrepareBackground ==
    /\ bg.pc = "input"
    /\ bg' = prepare_background(bg)
    /\ UNCHANGED <<words, op, arg, segments, clips, error, pipe, call, dl, fs>>

NextBg == PrepareBackground

SpecBg == InitBg /\ [][NextBg]_vars

(***************************************************************************)
(* video/assembler.py: Pipeline.process_story                              *)
(*                                                                         *)
(* One record, pipe, holds the position of process_story (pc), the locals  *)
(* of the running call, what is on disk (videos, files) and a log of the   *)
(* stages the call has invoked (calls) and of those that returned          *)
(* (finished).  Texts and paths are tuples; None is the empty tuple.       *)
(***************************************************************************)
MaxRuns == 2        \* calls of process_story
MaxAudio == 2       \* longest narration of a story, in seconds

max_retries == 2    \* simplify_story(story, max_retries=2)

\* Stories saved by the scraper; "missing" is an id load_story does not find,
\* "corrupt" the id of a file that exists and that json.load or the
\* RedditStory constructor rejects.
Stories == {"s1", "s2"}
StoryIds == Stories \cup {"missing", "corrupt"}

\* Background files and the duration VideoFileClip reads from each: v1 is a
\* file without frames, v2 lasts one second.
BgIds == {"v1", "v2"}
BgFileDuration == [v1 |-> 0, v2 |-> 1]
BgFileSize == <<1920, 1080>>

Body(sid) == <<"body", sid>>
Simplified(sid) == <<"simplified", sid>>
OutputPath(sid) == <<"output", sid, ".mp4">>

\* The stages of process_story in the order of its body.
StageOrder ==
    <<"Simplify", "Synthesize", "Transcribe", "SelectBackground", "Assemble">>

\* What one call of ollama.generate gives: an exception, a response that is
\* empty after strip(), or a text.
LLMOutcomes == {"raise", "empty", "text"}

NoProcessed ==
    [ simplified_text |-> None, status |-> "none", error_message |-> None,
      output_video_path |-> None ]

NoFile == [state |-> "none", run |-> 0]

\* Mutant: the statements of process_story in another order (transcription
\* before synthesis).
after_swapped(stage) ==
    CASE stage = "Simplify" -> "transcribe"
      [] stage = "Transcribe" -> "synthesize"
      [] stage = "Synthesize" -> "select"
      [] stage = "SelectBackground" -> "assemble"
      [] OTHER -> "done"

\* The statement process_story continues with when a stage has returned.
after(stage) ==
    CASE stage = "Simplify" -> "synthesize"
      [] stage = "Synthesize" -> "transcribe"
      [] stage = "Transcribe" -> "select"
      [] stage = "SelectBackground" -> "assemble"
      [] OTHER -> "done"

\* Mutant: process_story without its except clause; the exception leaves it.
stage_failed_propagates(p, stage) ==
    [p EXCEPT !.pc = "done", !.failed_stage = stage, !.outcome = "raised"]

\* except Exception as e: logger.error(...); return None
stage_failed(p, stage) ==
    [p EXCEPT !.pc = "done", !.failed_stage = stage, !.outcome = "returned",
              !.result = None]

invoke(p, stage) == [p EXCEPT !.calls = Append(@, stage)]

returned(p, stage) ==
    [p EXCEPT !.finished = Append(@, stage), !.pc = after(stage)]

InitPipe ==
    /\ words = <<>>
    /\ op = "none"
    /\ arg = None
    /\ segments = <<>>
    /\ clips = <<>>
    /\ error = "none"
    /\ call = NoCall
    /\ dl = NoDownloaders
    /\ fs = NoFiles
    /\ bg = BgIdle
    /\ \E present \in SUBSET BgIds :
          pipe = [ pc |-> "idle", run |-> 0, story_id |-> "none", rerun |-> FALSE,
                   attempt |-> 0, llm_log |-> <<>>, calls |-> <<>>,
                   finished |-> <<>>, processed |-> NoProcessed,
                   tts_text |-> None, audio_duration |-> 0,
                   background |-> "none", source |-> "none", reused |-> FALSE,
                   write_started |-> FALSE, failed_stage |-> "none",
                   outcome |-> "none", result |-> None,
                   videos |-> present, used |-> {},
                   files |-> [s \in Stories |-> NoFile], completed |-> {} ]

\* process_story(story_id) up to its try block: load_story, return None when
\* the story is not on disk.  load_story is called before the try statement,
\* so an exception of json.load or RedditStory(**data) leaves process_story.
load_story(p, sid) ==
    LET fresh == [p EXCEPT !.run = @ + 1, !.story_id = sid,
                           !.rerun = sid \in p.completed,
                           !.attempt = 0, !.llm_log = <<>>, !.calls = <<>>,
                           !.finished = <<>>, !.processed = NoProcessed,
                           !.tts_text = None, !.audio_duration = 0,
                           !.background = "none", !.source = "none",
                           !.reused = FALSE, !.write_started = FALSE,
                           !.failed_stage = "none", !.outcome = "running",
                           !.result = None]
    IN  IF sid \in Stories
        THEN [fresh EXCEPT !.pc = "simplify"]
        ELSE IF sid = "missing"
        THEN [fresh EXCEPT !.pc = "done", !.outcome = "returned"]
        ELSE [fresh EXCEPT !.pc = "done", !.outcome = "raised"]

StartRun ==
    /\ pipe.pc \in {"idle", "done"}
    /\ pipe.run < MaxRuns
    /\ \E sid \in StoryIds : pipe' = load_story(pipe, sid)
    /\ bg' = BgIdle
    /\ UNCHANGED <<words, op, arg, segments, clips, error, call, dl, fs>>

\* Mutant: the last failed attempt gives the record of the statement after
\* the retry loop (status FAILED, no text).
simplify_story_no_fallback(p, out) ==
    LET q == [ (IF p.attempt = 0 THEN invoke(p, "Simplify") ELSE p)
                   EXCEPT !.llm_log = Append(@, out) ]
    IN  IF out = "text"
        THEN returned([q EXCEPT !.processed =
                          [ simplified_text |-> Simplified(p.story_id),
                            status |-> "SIMPLIFIED", error_message |-> None,
                            output_video_path |-> None ]], "Simplify")
        ELSE IF p.attempt = max_retries
        THEN returned([q EXCEPT !.processed =
                          [ simplified_text |-> None,
                            status |-> "FAILED",
                            error_message |-> <<"Failed after all retries">>,
                            output_video_path |-> None ]], "Simplify")
        ELSE [q EXCEPT !.attempt = @ + 1]

\* processors/llm.py: one turn of the retry loop of simplify_story.  An
\* empty response raises ValueError inside the try, so it is handled like an
\* exception of ollama.generate.
simplify_story(p, out) ==
    LET q == [ (IF p.attempt = 0 THEN invoke(p, "Simplify") ELSE p)
                   EXCEPT !.llm_log = Append(@, out) ]
    IN  IF out = "text"
        THEN returned([q EXCEPT !.processed =
                          [ simplified_text |-> Simplified(p.story_id),
                            status |-> "SIMPLIFIED", error_message |-> None,
                            output_video_path |-> None ]], "Simplify")
        ELSE IF p.attempt = max_retries
        THEN returned([q EXCEPT !.processed =
                          [ simplified_text |-> Body(p.story_id),
                            status |-> "SIMPLIFIED",
                            error_message |-> <<"LLM failed, using original">>,
                            output_video_path |-> None ]], "Simplify")
        ELSE [q EXCEPT !.attempt = @ + 1]

Simplify ==
    /\ pipe.pc = "simplify"
    /\ \E out \in LLMOutcomes : pipe' = simplify_story(pipe, out)
    /\ UNCHANGED <<words, op, arg, segments, clips, error, bg, call, dl, fs>>

\* self.tts.generate_audio(processed.simplified_text, audio_path): raises, or
\* writes an audio file that lasts d seconds.
generate_audio(p, ok, d) ==
    LET q == [invoke(p, "Synthesize") EXCEPT !.tts_text = p.processed.simplified_text]
    IN  IF ok
        THEN returned([q EXCEPT !.audio_duration = d], "Synthesize")
        ELSE stage_failed(q, "Synthesize")

Synthesize ==
    /\ pipe.pc = "synthesize"
    /\ \E ok \in BOOLEAN, d \in 1..MaxAudio : pipe' = generate_audio(pipe, ok, d)
    /\ UNCHANGED <<words, op, arg, segments, clips, error, bg, call, dl, fs>>

\* self.transcriber.transcribe_and_save(audio_path)
transcribe_and_save(p, ok) ==
    LET q == invoke(p, "Transcribe")
    IN  IF ok THEN returned(q, "Transcribe") ELSE stage_failed(q, "Transcribe")

TranscribeAudio ==
    /\ pipe.pc = "transcribe"
    /\ \E ok \in BOOLEAN : pipe' = transcribe_and_save(pipe, ok)
    /\ UNCHANGED <<words, op, arg, segments, clips, error, bg, call, dl, fs>>

\* background = self.youtube.get_random_video(): random.choice over every
\* *.mp4 of videos_dir, None when there is none.
get_random_video(p, v) ==
    LET q == invoke(p, "SelectBackground")
    IN  IF p.videos = {}
        THEN [q EXCEPT !.pc = "download"]
        ELSE returned([q EXCEPT !.background = v, !.source = "local",
                                !.reused = v \in p.used], "SelectBackground")

SelectBackground ==
    /\ pipe.pc = "select"
    /\ \E v \in (IF pipe.videos = {} THEN {"none"} ELSE pipe.videos) :
          pipe' = get_random_video(pipe, v)
    /\ UNCHANGED <<words, op, arg, segments, clips, error, bg, call, dl, fs>>

\* videos = self.youtube.download_random(count=1): the search may raise, the
\* list may be empty (process_story returns None), or it holds one video now
\* in videos_dir.
download_random(p, out) ==
    IF out = "raise"
    THEN stage_failed(p, "SelectBackground")
    ELSE IF out = "empty"
    THEN [p EXCEPT !.pc = "done", !.failed_stage = "SelectBackground",
                   !.outcome = "returned", !.result = None]
    ELSE returned([p EXCEPT !.videos = @ \cup {out}, !.background = out,
                            !.source = "download", !.reused = out \in p.used],
                  "SelectBackground")

DownloadRandom ==
    /\ pipe.pc = "download"
    /\ \E out \in {"raise", "empty"} \cup BgIds : pipe' = download_random(pipe, out)
    /\ UNCHANGED <<words, op, arg, segments, clips, error, bg, call, dl, fs>>

\* VideoAssembler.assemble up to the prepared background: load the audio,
\* target_duration = audio.duration, prepare_background(..., loop=True).
AssemblePrepare ==
    /\ pipe.pc = "assemble"
    /\ \E loaded \in BOOLEAN :
          LET q == invoke(pipe, "Assemble")
              prepared == prepare_background(
                              [ pc |-> "input",
                                source_duration |-> BgFileDuration[pipe.background],
                                duration |-> pipe.audio_duration,
                                loop |-> TRUE,
                                size |-> BgFileSize ])
          IN  IF ~loaded
              THEN /\ pipe' = stage_failed(q, "Assemble")
                   /\ bg' = bg
              ELSE /\ bg' = prepared
                   /\ pipe' = IF prepared.pc = "raised"
                              THEN stage_failed(q, "Assemble")
                              ELSE [q EXCEPT !.pc = "write"]
    /\ UNCHANGED <<words, op, arg, segments, clips, error, call, dl, fs>>

\* final.write_videofile(str(output_path), ...): the encoder opens
\* output_dir/<story_id>.mp4 itself and writes the frames into it.
AssembleWriteBegin ==
    /\ pipe.pc = "write"
    /\ pipe' = [pipe EXCEPT !.pc = "writing", !.write_started = TRUE,
                            !.files[pipe.story_id] =
                                [state |-> "partial", run |-> pipe.run]]
    /\ UNCHANGED <<words, op, arg, segments, clips, error, bg, call, dl, fs>>

\* The end of write_videofile: an exception leaves process_story through its
\* except clause, which removes nothing; otherwise the record is marked
\* ASSEMBLED and the output path returned.
AssembleWriteEnd ==
    /\ pipe.pc = "writing"
    /\ \E ok \in BOOLEAN :
          pipe' = IF ok
                  THEN [ returned(pipe, "Assemble") EXCEPT
                           !.files[pipe.story_id] =
                               [state |-> "complete", run |-> pipe.run],
                           !.processed.status = "ASSEMBLED",
                           !.processed.output_video_path = OutputPath(pipe.story_id),
                           !.outcome = "returned",
                           !.result = OutputPath(pipe.story_id),
                           !.used = @ \cup {pipe.background},
                           !.completed = @ \cup {pipe.story_id} ]
                  ELSE stage_failed(pipe, "Assemble")
    /\ UNCHANGED <<words, op, arg, segments, clips, error, bg, call, dl, fs>>

NextPipe ==
    \/ StartRun
    \/ Simplify
    \/ Synthesize
    \/ TranscribeAudio
    \/ SelectBackground
    \/ DownloadRandom
    \/ AssemblePrepare
    \/ AssembleWriteBegin
    \/ AssembleWriteEnd

SpecPipe == InitPipe /\ [][NextPipe]_vars

(***************************************************************************)
(* models/caption.py: construction of a WordTiming from raw values         *)
(*                                                                         *)
(* The class declares four typed fields and no validator, so pydantic      *)
(* accepts every (str, float, float, float).  Confidence is counted in     *)
(* tenths, like the times.                                                 *)
(***************************************************************************)
\* Raw confidences: below 0, the ends of [0, 1], inside, above 1.
Confidences == {-1, 0, 5, 10, 11}

RawWords ==
    [ pc : {"raw"}, word : WordTexts, start_time : Times, end_time : Times,
      confidence : Confidences ]

InitWord ==
    /\ words = <<>>
    /\ op = "none"
    /\ arg = None
    /\ segments = <<>>
    /\ clips = <<>>
    /\ error = "none"
    /\ bg = BgIdle
    /\ pipe = PipeIdle
    /\ call \in RawWords
    /\ dl = NoDownloaders
    /\ fs = NoFiles

\* WordTiming(word=..., start_time=..., end_time=..., confidence=...): the
\* value holds the four fields as given.
WordTimingWithConfidence(w, s, e, c) ==
    [word |-> w, start_time |-> s, end_time |-> e, confidence |-> c]

\* The transcriber constructs the value and appends it to the words of the
\* Transcript.
ConstructWordTiming ==
    /\ call.pc = "raw"
    /\ call' = [call EXCEPT !.pc = "constructed"]
    /\ error' = "none"
    /\ words' = <<WordTimingWithConfidence(call.word, call.start_time,
                                           call.end_time, call.confidence)>>
    /\ UNCHANGED <<op, arg, segments, clips, bg, pipe, dl, fs>>

\* The Transcript is grouped into CaptionSegments.
SegmentConstructed ==
    /\ call.pc = "constructed"
    /\ call' = [call EXCEPT !.pc = "segmented"]
    /\ \E n \in 1..MaxN :
          /\ arg' = <<n>>
          /\ segments' = get_segments(words, n)
    /\ op' = "get_segments"
    /\ UNCHANGED <<words, clips, error, bg, pipe, dl, fs>>

NextWord ==
    \/ ConstructWordTiming
    \/ SegmentConstructed

SpecWord == InitWord /\ [][NextWord]_vars

(***************************************************************************)
(* models/caption.py: Transcript.to_srt and _format_srt_time               *)
(*                                                                         *)
(* In this part a time is an integer number of ticks, a tick being a       *)
(* tenth of a millisecond, so that the truncation to milliseconds has      *)
(* something to drop.  A timestamp is a sequence of characters.            *)
(***************************************************************************)
MaxSrtWords == 5            \* longest transcript exported

TicksPerSecond == 10000
DefaultWordsPerSegment == 4 \* get_segments(self, words_per_segment=4)

\* 0 s, 0.0005 s, 1.2345 s, 59.9999 s, 1 h 1 min 1.0005 s, 10 h.
SrtTimes == {0, 5, 12345, 599999, 36610005, 360000000}

Digit(d) ==
    CASE d = 0 -> "0" [] d = 1 -> "1" [] d = 2 -> "2" [] d = 3 -> "3"
      [] d = 4 -> "4" [] d = 5 -> "5" [] d = 6 -> "6" [] d = 7 -> "7"
      [] d = 8 -> "8" [] d = 9 -> "9"

\* str(n) for n >= 0.
RECURSIVE ToDigits(_)
ToDigits(n) == IF n < 10 THEN <<Digit(n)>> ELSE Append(ToDigits(n \div 10), Digit(n % 10))

\* f"{n:0<width>d}": at least width digits, zeros on the left.
RECURSIVE ZeroPad(_, _)
ZeroPad(s, width) == IF Len(s) >= width THEN s ELSE ZeroPad(<<"0">> \o s, width)

\* Mutant: the milliseconds are rounded instead of truncated.
_format_srt_time_rounded(seconds) ==
    LET hours == seconds \div (3600 * TicksPerSecond)
        minutes == (seconds % (3600 * TicksPerSecond)) \div (60 * TicksPerSecond)
        secs == (seconds % (60 * TicksPerSecond)) \div TicksPerSecond
        millis == ((seconds % TicksPerSecond) * 1000 + TicksPerSecond \div 2)
                      \div TicksPerSecond
    IN  ZeroPad(ToDigits(hours), 2) \o <<":">> \o ZeroPad(ToDigits(minutes), 2)
            \o <<":">> \o ZeroPad(ToDigits(secs), 2) \o <<",">>
            \o ZeroPad(ToDigits(millis), 3)

\* _format_srt_time(seconds) for seconds >= 0: int() of a non-negative
\* float truncates, // and % are the floor division and its remainder.
_format_srt_time(seconds) ==
    LET hours == seconds \div (3600 * TicksPerSecond)
        minutes == (seconds % (3600 * TicksPerSecond)) \div (60 * TicksPerSecond)
        secs == (seconds % (60 * TicksPerSecond)) \div TicksPerSecond
        millis == ((seconds % TicksPerSecond) * 1000) \div TicksPerSecond
    IN  ZeroPad(ToDigits(hours), 2) \o <<":">> \o ZeroPad(ToDigits(minutes), 2)
            \o <<":">> \o ZeroPad(ToDigits(secs), 2) \o <<",">>
            \o ZeroPad(ToDigits(millis), 3)

\* The four lines of every segment, in order: the lines that to_srt joins
\* with "\n".
RECURSIVE SrtLines(_, _)
SrtLines(segs, i) ==
    IF i > Len(segs) THEN <<>>
    ELSE << ToDigits(i),
            _format_srt_time(segs[i].start_time) \o <<" ", "-", "-", ">", " ">>
                \o _format_srt_time(segs[i].end_time),
            Join(segs[i].words),
            <<>> >> \o SrtLines(segs, i + 1)

to_srt(ws) == SrtLines(get_segments(ws, DefaultWordsPerSegment), 1)

InitSrt ==
    /\ words = <<>>
    /\ op = "none"
    /\ arg = None
    /\ segments = <<>>
    /\ clips = <<>>
    /\ error = "none"
    /\ bg = BgIdle
    /\ pipe = PipeIdle
    /\ call = [pc |-> "transcript", lines |-> <<>>]
    /\ dl = NoDownloaders
    /\ fs = NoFiles

\* TranscriptionProcessor.transcribe: words.append(WordTiming(...)), the
\* words in speaking order.
TranscribeWord ==
    /\ call.pc = "transcript"
    /\ Len(words) < MaxSrtWords
    /\ \E w \in {Hello}, s \in SrtTimes, e \in SrtTimes :
          /\ s >= LastEnd
          /\ e >= s
          /\ words' = Append(words, WordTiming(w, s, e))
    /\ UNCHANGED <<op, arg, segments, clips, error, bg, pipe, call, dl, fs>>

\* transcript.to_srt(), as transcribe_and_save calls it.
ToSrt ==
    /\ call.pc = "transcript"
    /\ call' = [pc |-> "exported", lines |-> to_srt(words)]
    /\ segments' = get_segments(words, DefaultWordsPerSegment)
    /\ op' = "to_srt"
    /\ UNCHANGED <<words, arg, clips, error, bg, pipe, dl, fs>>

NextSrt ==
    \/ TranscribeWord
    \/ ToSrt

SpecSrt == InitSrt /\ [][NextSrt]_vars

(***************************************************************************)
(* processors/transcription.py: estimate_word_timings                      *)
(*                                                                         *)
(* The times of this function are fractions <<numerator, denominator>>,    *)
(* added and compared exactly; audio_duration is a whole number of tenths  *)
(* of a second.                                                            *)
(***************************************************************************)
MaxTextWords == 4       \* most words of a narration text

Frac(n, d) == <<n, d>>
FracAdd(x, y) == <<x[1] * y[2] + y[1] * x[2], x[2] * y[2]>>
FracEq(x, y) == x[1] * y[2] = y[1] * x[2]
FracLe(x, y) == x[1] * y[2] <= y[1] * x[2]

\* text.split(): the maximal runs of non-whitespace characters.
RECURSIVE split(_)
split(text) ==
    IF text = <<>> THEN <<>>
    ELSE LET init == SubSeq(text, 1, Len(text) - 1)
             last == text[Len(text)]
             before == split(init)
         IN  IF last \in Whitespace THEN before
             ELSE IF init # <<>> /\ init[Len(init)] \notin Whitespace
             THEN [before EXCEPT ![Len(before)] = Append(@, last)]
             ELSE Append(before, <<last>>)

\* Mutant: the time per word comes from the speaking rate (60 /
\* words_per_minute seconds) instead of the duration of the audio.
RECURSIVE EstimateLoopByRate(_, _, _)
EstimateLoopByRate(ws, current_time, time_per_word) ==
    IF ws = <<>> THEN <<>>
    ELSE << [ word |-> ws[1], start_time |-> current_time,
              end_time |-> FracAdd(current_time, Frac(600, time_per_word[2])),
              confidence |-> 5 ] >>
         \o EstimateLoopByRate(Tail(ws), FracAdd(current_time, Frac(600, time_per_word[2])),
                               time_per_word)

\* for word in words: append WordTiming(word, current_time, current_time +
\* time_per_word, 0.5); current_time += time_per_word
RECURSIVE EstimateLoop(_, _, _)
EstimateLoop(ws, current_time, time_per_word) ==
    IF ws = <<>> THEN <<>>
    ELSE << [ word |-> ws[1], start_time |-> current_time,
              end_time |-> FracAdd(current_time, time_per_word),
              confidence |-> 5 ] >>
         \o EstimateLoop(Tail(ws), FracAdd(current_time, time_per_word), time_per_word)

estimate_word_timings(text, audio_duration, words_per_minute) ==
    LET ws == split(text)
    IN  IF ws = <<>>
        THEN [words |-> <<>>, duration |-> Frac(0, 1), language |-> "en"]
        ELSE [ words |-> EstimateLoop(ws, Frac(0, 1), Frac(audio_duration, Len(ws))),
               duration |-> Frac(audio_duration, 1),
               language |-> "en" ]

\* A text of n words w1 .. wn, each preceded by the separator.
RECURSIVE TextOf(_, _)
TextOf(n, sep) ==
    IF n = 0 THEN <<>> ELSE TextOf(n - 1, sep) \o sep \o <<"w", Digit(n)>>

\* Narration texts: up to MaxTextWords words, separated by a space or by a
\* line break and a tab, with or without whitespace at the end.
EstimateTexts ==
    { TextOf(n, sep) \o tail :
        n \in 0..MaxTextWords, sep \in {<<" ">>, <<"\n", "\t">>},
        tail \in {<<>>, <<" ">>} }

WordsPerMinute == {90, 150}

InitEstimate ==
    /\ words = <<>>
    /\ op = "none"
    /\ arg = None
    /\ segments = <<>>
    /\ clips = <<>>
    /\ error = "none"
    /\ bg = BgIdle
    /\ pipe = PipeIdle
    /\ call \in [ pc : {"input"}, text : EstimateTexts,
                  audio_duration : 0..MaxTarget, words_per_minute : WordsPerMinute ]
    /\ dl = NoDownloaders
    /\ fs = NoFiles

EstimateWordTimings ==
    /\ call.pc = "input"
    /\ LET transcript == estimate_word_timings(call.text, call.audio_duration,
                                               call.words_per_minute)
       IN  /\ words' = transcript.words
           /\ call' = [ pc |-> "estimated", text |-> call.text,
                        audio_duration |-> call.audio_duration,
                        words_per_minute |-> call.words_per_minute,
                        transcript |-> transcript ]
    /\ op' = "estimate_word_timings"
    /\ UNCHANGED <<arg, segments, clips, error, bg, pipe, dl, fs>>

NextEstimate == EstimateWordTimings

SpecEstimate == InitEstimate /\ [][NextEstimate]_vars

(***************************************************************************)
(* video/assembler.py: the captions VideoAssembler schedules against the   *)
(* narration audio.  The word timings come from the transcriber, the       *)
(* target duration from AudioFileClip(audio_path).duration; times are      *)
(* tenths of a second.                                                     *)
(***************************************************************************)
CaptionWordsPerGroup == 4   \* settings.caption.words_per_group

\* The duration transcribe gives the Transcript: the end of the last word,
\* else the end of Whisper's last segment, else 0.0.
TranscriptDuration(ws, last_segment_end) ==
    IF ws # <<>> THEN ws[Len(ws)].end_time
    ELSE IF last_segment_end # None THEN last_segment_end[1]
    ELSE 0

\* quick_assemble: one TextClip per segment, shown from the segment's
\* start_time to its end_time.
SegmentClips(segs) ==
    [ j \in 1..Len(segs) |->
        [ text |-> Join(segs[j].words), color |-> CaptionColor,
          start |-> segs[j].start_time, end |-> segs[j].end_time ] ]

InitCaption ==
    /\ words = <<>>
    /\ op = "none"
    /\ arg = None
    /\ segments = <<>>
    /\ clips = <<>>
    /\ error = "none"
    /\ bg = BgIdle
    /\ pipe = PipeIdle
    /\ call \in [ pc : {"transcribing"}, audio_duration : Times \ {0} ]
    /\ dl = NoDownloaders
    /\ fs = NoFiles

\* TranscriptionProcessor.transcribe: words.append(WordTiming(...)) for the
\* words Whisper reports, in speaking order.
TranscribeNarration ==
    /\ call.pc = "transcribing"
    /\ Len(words) < MaxWords
    /\ \E w \in {Hello, Bye}, s \in Times, e \in Times :
          /\ s >= LastEnd
          /\ e >= s
          /\ words' = Append(words, WordTiming(w, s, e))
    /\ UNCHANGED <<op, arg, segments, clips, error, bg, pipe, call, dl, fs>>

\* transcribe returns the Transcript; assemble (use_karaoke) or
\* quick_assemble schedules its captions over the prepared background of
\* target_duration = audio.duration.
AssembleCaptions ==
    /\ call.pc = "transcribing"
    /\ \E use_karaoke \in BOOLEAN, last_segment_end \in {None} \cup {<<t>> : t \in Times} :
          /\ call' = [ pc |-> "assembled",
                       audio_duration |-> call.audio_duration,
                       target_duration |-> call.audio_duration,
                       use_karaoke |-> use_karaoke,
                       transcript_duration |->
                           TranscriptDuration(words, last_segment_end) ]
          /\ IF use_karaoke
             THEN /\ segments' = get_segments_v2(words, None)
                  /\ clips' = generate_captions(words, VideoWidth)
             ELSE /\ segments' = get_segments(words, CaptionWordsPerGroup)
                  /\ clips' = SegmentClips(get_segments(words, CaptionWordsPerGroup))
    /\ op' = "assemble"
    /\ UNCHANGED <<words, arg, error, bg, pipe, dl, fs>>

NextCaption ==
    \/ TranscribeNarration
    \/ AssembleCaptions

SpecCaption == InitCaption /\ [][NextCaption]_vars

(***************************************************************************)
(* scrapers/youtube.py: the index of downloaded videos                     *)
(*                                                                         *)
(* Every pipeline constructs its own YouTubeDownloader.  The downloaders   *)
(* share videos_dir/index.json; each keeps its own _downloaded_ids.  The   *)
(* code takes no lock, so the steps of different downloaders interleave.   *)
(***************************************************************************)
MaxDownloaders == 2     \* pipelines acquiring a background at the same time

Downloaders == 1..MaxDownloaders

\* Ids in index.json from earlier sessions, and ids of videos on YouTube.
OldIds == {"old"}
NewIds == {"n1", "n2"}

InitIndex ==
    /\ words = <<>>
    /\ op = "none"
    /\ arg = None
    /\ segments = <<>>
    /\ clips = <<>>
    /\ error = "none"
    /\ bg = BgIdle
    /\ pipe = PipeIdle
    /\ call = NoCall
    /\ \E persisted \in SUBSET OldIds :
          dl = [ pc |-> "running",
                 index |-> persisted,
                 inst |-> [ d \in Downloaders |->
                              [ pc |-> "new", _downloaded_ids |-> {},
                                video_id |-> "none", metadata |-> "none" ] ] ]
    /\ fs = NoFiles

\* _save_downloaded: json.dump({"downloaded_ids": list(self._downloaded_ids)})
\* over the file; what the file held is not read.
_save_downloaded(index, ids) == ids

\* YouTubeDownloader.__init__: self._downloaded_ids = set(); _load_downloaded().
Construct(d) ==
    /\ dl.pc = "running"
    /\ dl.inst[d].pc = "new"
    /\ dl' = [dl EXCEPT !.inst[d].pc = "ready",
                        !.inst[d]._downloaded_ids = dl.index]
    /\ UNCHANGED <<words, op, arg, segments, clips, error, bg, pipe, call, fs>>

\* download_video up to self._downloaded_ids.add(video_id): the download
\* fails (return None) or gives a video that is not in the downloader's ids
\* (search_videos skips those).
DownloadVideo(d) ==
    /\ dl.pc = "running"
    /\ dl.inst[d].pc = "ready"
    /\ \/ dl' = [dl EXCEPT !.inst[d].pc = "done"]
       \/ \E v \in NewIds \ dl.inst[d]._downloaded_ids :
             dl' = [dl EXCEPT !.inst[d].pc = "saving",
                              !.inst[d].video_id = v,
                              !.inst[d]._downloaded_ids = @ \cup {v}]
    /\ UNCHANGED <<words, op, arg, segments, clips, error, bg, pipe, call, fs>>

\* self._save_downloaded(); return metadata
SaveDownloaded(d) ==
    /\ dl.pc = "running"
    /\ dl.inst[d].pc = "saving"
    /\ dl' = [dl EXCEPT !.index = _save_downloaded(dl.index, dl.inst[d]._downloaded_ids),
                        !.inst[d].pc = "done",
                        !.inst[d].metadata = dl.inst[d].video_id]
    /\ UNCHANGED <<words, op, arg, segments, clips, error, bg, pipe, call, fs>>

NextIndex ==
    \E d \in Downloaders :
        \/ Construct(d)
        \/ DownloadVideo(d)
        \/ SaveDownloaded(d)

SpecIndex == InitIndex /\ [][NextIndex]_vars

(***************************************************************************)
(* The files of concurrent pipeline runs                                   *)
(*                                                                         *)
(* A path is <<directory, story id, rest of the file name>>.  Every run   *)
(* is one call of process_story in its own process; the runs share the    *)
(* data directory.                                                         *)
(* fs.log records every access of a run to a file.                         *)
(***************************************************************************)
MaxRunners == 2         \* pipelines running at the same time

Runners == 1..MaxRunners

\* audio_path = self.settings.audio_dir / f"{story_id}.mp3"
audio_path(story_id) == <<"audio", story_id, ".mp3">>

\* Path.with_suffix: the last suffix is replaced.
with_suffix(path, suffix) == <<path[1], path[2], suffix>>

\* Mutant: one cache file for every story (cache_dir / "prepared_bg.mp4").
prepared_bg_path_shared(story_id) == <<"cache", "prepared", "_bg.mp4">>

\* prepared_bg_path = cache_dir / f"{story.original.id}_bg.mp4"
prepared_bg_path(story_id) == <<"cache", story_id, "_bg.mp4">>

\* The file accesses of one run, in the order process_story makes them.
FileSteps(story_id) ==
    << [op |-> "write",  path |-> audio_path(story_id)],
       [op |-> "read",   path |-> audio_path(story_id)],
       [op |-> "write",  path |-> with_suffix(audio_path(story_id), ".json")],
       [op |-> "write",  path |-> with_suffix(audio_path(story_id), ".srt")],
       [op |-> "read",   path |-> audio_path(story_id)],
       [op |-> "write",  path |-> prepared_bg_path(story_id)],
       [op |-> "read",   path |-> prepared_bg_path(story_id)],
       [op |-> "write",  path |-> OutputPath(story_id)],
       [op |-> "delete", path |-> prepared_bg_path(story_id)] >>

InitFiles ==
    /\ words = <<>>
    /\ op = "none"
    /\ arg = None
    /\ segments = <<>>
    /\ clips = <<>>
    /\ error = "none"
    /\ bg = BgIdle
    /\ pipe = PipeIdle
    /\ call = NoCall
    /\ dl = NoDownloaders
    /\ \E ids \in [Runners -> Stories] :
          fs = [ pc |-> "running",
                 run |-> [r \in Runners |-> [story_id |-> ids[r], step |-> 0]],
                 log |-> {} ]

\* The next file access of run r.
FileStep(r) ==
    /\ fs.pc = "running"
    /\ fs.run[r].step < Len(FileSteps(fs.run[r].story_id))
    /\ LET k == fs.run[r].step + 1
           access == FileSteps(fs.run[r].story_id)[k]
       IN  fs' = [fs EXCEPT !.run[r].step = k,
                            !.log = @ \cup {[ runner |-> r, op |-> access.op,
                                              path |-> access.path ]}]
    /\ UNCHANGED <<words, op, arg, segments, clips, error, bg, pipe, call, dl>>

NextFiles == \E r \in Runners : FileStep(r)

SpecFiles == InitFiles /\ [][NextFiles]_vars

(***************************************************************************)
(* processors/llm.py: simplify_story and _clean_response.  One call of     *)
(* simplify_story is followed through its retry loop: `call` holds the     *)
(* arguments, the loop variable, the replies of ollama.generate so far     *)
(* and, once the call has returned, the ProcessedStory.                    *)
(***************************************************************************)
\* The largest max_retries a call is given.
MaxRetries == 2

\* str.lower() on the letters the prefixes are written with.
UpperToLower ==
    [ H |-> "h", R |-> "r", E |-> "e", W |-> "w", I |-> "i", T |-> "t",
      N |-> "n", S |-> "s", O |-> "o", Y |-> "y" ]

lower(s) ==
    [i \in 1..Len(s) |->
        IF s[i] \in DOMAIN UpperToLower THEN UpperToLower[s[i]] ELSE s[i]]

startswith(s, prefix) ==
    /\ Len(prefix) <= Len(s)
    /\ SubSeq(s, 1, Len(prefix)) = prefix

RECURSIVE lstrip(_)
lstrip(s) ==
    IF s # <<>> /\ s[1] \in Whitespace
    THEN lstrip(SubSeq(s, 2, Len(s)))
    ELSE s

strip(s) == lstrip(rstrip(s))

prefixes_to_remove ==
    << <<"H", "e", "r", "e", "'", "s", " ", "t", "h", "e", " ", "r",
         "e", "w", "r", "i", "t", "t", "e", "n", " ", "s", "t", "o",
         "r", "y", ":">>,
       <<"H", "e", "r", "e", " ", "i", "s", " ", "t", "h", "e", " ",
         "r", "e", "w", "r", "i", "t", "t", "e", "n", " ", "s", "t",
         "o", "r", "y", ":">>,
       <<"R", "E", "W", "R", "I", "T", "T", "E", "N", " ", "S", "T",
         "O", "R", "Y", ":">>,
       <<"R", "e", "w", "r", "i", "t", "t", "e", "n", " ", "s", "t",
         "o", "r", "y", ":">>,
       <<"R", "E", "W", "R", "I", "T", "T", "E", "N", ":">> >>

\* The loop over prefixes_to_remove: each prefix is tried once, in order, on
\* the text the earlier ones left.
RECURSIVE RemovePrefixes(_, _)
RemovePrefixes(text, k) ==
    IF k > Len(prefixes_to_remove)
    THEN text
    ELSE LET prefix == prefixes_to_remove[k]
         IN  IF startswith(lower(text), lower(prefix))
             THEN RemovePrefixes(
                      strip(SubSeq(text, Len(prefix) + 1, Len(text))), k + 1)
             ELSE RemovePrefixes(text, k + 1)

_clean_response(text) ==
    LET t == RemovePrefixes(text, 1)
        unquoted == IF startswith(t, <<"\"">>) /\ endswith(t, {"\""})
                    THEN SubSeq(t, 2, Len(t) - 1)
                    ELSE t
    IN  strip(unquoted)

\* The empty response, or a reply without a "response" key
EmptyText ==
    <<>>
\* Whitespace only
BlankText ==
    <<" ">>
\* A plain text
PlainText ==
    <<"H", "i">>
\* A text between spaces
PaddedText ==
    <<" ", "H", "i", " ">>
\* A quoted text
QuotedText ==
    <<"\"", "H", "i", "\"">>
\* A prefix in another case, then a text
PrefixedText ==
    <<"r", "e", "w", "r", "i", "t", "t", "e", "n", ":", " ", "H", "i">>
\* Two quotation marks
EmptyQuotes ==
    <<"\"", "\"">>
\* One quotation mark
LoneQuote ==
    <<"\"">>
\* A prefix and nothing else
OnlyPrefix ==
    <<"R", "E", "W", "R", "I", "T", "T", "E", "N", ":">>
\* Two prefixes and an empty quotation
PrefixedEmptyQuotes ==
    <<"R", "E", "W", "R", "I", "T", "T", "E", "N", " ", "S", "T", "O",
    "R", "Y", ":", " ", "R", "E", "W", "R", "I", "T", "T", "E", "N",
    ":", " ", "\"", "\"">>

\* What one call of ollama.generate gives: an exception, or a reply whose
\* "response" is one of the texts above.
Replies ==
    {[raised |-> TRUE, response |-> EmptyText]} \cup
    [ raised : {FALSE},
      response : { EmptyText, BlankText, PlainText, PaddedText, QuotedText,
                   PrefixedText, EmptyQuotes, LoneQuote, OnlyPrefix, PrefixedEmptyQuotes } ]

\* story.body: empty, or a text.
Bodies == {<<>>, <<"S", "o", " ", "i", "t", ".">>}

NoResult == [simplified_text |-> <<>>, status |-> "none", error_message |-> None]

InitLlm ==
    /\ call \in [ pc : {"loop"}, max_retries : -1..MaxRetries, body : Bodies,
                  attempt : {0}, replies : {<<>>}, result : {NoResult} ]
    /\ words = <<>>
    /\ op = "init"
    /\ arg = None
    /\ segments = <<>>
    /\ clips = <<>>
    /\ error = "none"
    /\ bg = BgIdle
    /\ pipe = PipeIdle
    /\ dl = NoDownloaders
    /\ fs = NoFiles

\* Mutant: the except clause without its test of the last attempt, so that a
\* call whose attempts all fail leaves the loop.
simplify_attempt_no_last_check(c, reply) ==
    LET d == [c EXCEPT !.replies = Append(@, reply)]
        simplified == strip(reply.response)
    IN  IF ~reply.raised /\ simplified # <<>>
        THEN [d EXCEPT !.pc = "returned",
                       !.result = [ simplified_text |-> _clean_response(simplified),
                                    status |-> "SIMPLIFIED",
                                    error_message |-> None ]]
        ELSE [d EXCEPT !.attempt = @ + 1]

\* One turn of `for attempt in range(max_retries + 1)`: ollama.generate is
\* called and raises or replies; an empty reply raises ValueError; a reply
\* that is not empty is cleaned and returned; an exception on the last
\* attempt returns the original body, on an earlier one the loop goes on.
simplify_attempt(c, reply) ==
    LET d == [c EXCEPT !.replies = Append(@, reply)]
        simplified == strip(reply.response)
    IN  IF ~reply.raised /\ simplified # <<>>
        THEN [d EXCEPT !.pc = "returned",
                       !.result = [ simplified_text |-> _clean_response(simplified),
                                    status |-> "SIMPLIFIED",
                                    error_message |-> None ]]
        ELSE IF c.attempt = c.max_retries
        THEN [d EXCEPT !.pc = "returned",
                       !.result = [ simplified_text |-> c.body,
                                    status |-> "SIMPLIFIED",
                                    error_message |->
                                        <<"LLM failed, using original">> ]]
        ELSE [d EXCEPT !.attempt = @ + 1]

SimplifyAttempt ==
    /\ call.pc = "loop"
    /\ call.attempt < call.max_retries + 1
    /\ \E reply \in Replies : call' = simplify_attempt(call, reply)
    /\ UNCHANGED <<words, op, arg, segments, clips, error, bg, pipe, dl, fs>>

\* range(max_retries + 1) is exhausted: the statement after the loop.
SimplifyLoopExhausted ==
    /\ call.pc = "loop"
    /\ ~(call.attempt < call.max_retries + 1)
    /\ call' = [call EXCEPT !.pc = "returned",
                            !.result = [ simplified_text |-> call.body,
                                         status |-> "FAILED",
                                         error_message |-> None ]]
    /\ UNCHANGED <<words, op, arg, segments, clips, error, bg, pipe, dl, fs>>

NextLlm ==
    \/ SimplifyAttempt
    \/ SimplifyLoopExhausted

SpecLlm == InitLlm /\ [][NextLlm]_vars


(***************************************************************************)
(* Helpers of the properties                                               *)
(***************************************************************************)
\* The words of the segments, concatenated in order.
RECURSIVE ConcatWords(_)
ConcatWords(segs) ==
    IF segs = <<>> THEN <<>> ELSE Head(segs).words \o ConcatWords(Tail(segs))

\* The number of words in the first j segments.
RECURSIVE WordsBefore(_, _)
WordsBefore(segs, j) ==
    IF j = 0 THEN 0 ELSE WordsBefore(segs, j - 1) + Len(segs[j].words)

\* The word positions a segment ends at.
Boundaries(segs) == {WordsBefore(segs, j) : j \in 1..Len(segs)}

\* The word's text, ignoring trailing whitespace, ends with '.', '?' or '!'.
EndsSentence(w) == endswith(rstrip(w.word), {".", "?", "!"})

\* The sentence-aware segmentation caption generation uses has run.
SentenceAwareV2 ==
    \/ op = "get_segments_v2" /\ arg = None
    \/ op = "generate_captions"

(***************************************************************************)
(* C1: for every transcript and every group size N >= 1, the segments of   *)
(* get_segments(N) concatenate to exactly the transcript's words, every    *)
(* segment has at most N words and every segment but the last exactly N.   *)
(***************************************************************************)
C1_FixedSizePartition ==
    (op = "get_segments" /\ arg[1] >= 1) =>
        /\ error = "none"
        /\ ConcatWords(segments) = words
        /\ \A j \in 1..Len(segments) :
              /\ Len(segments[j].words) <= arg[1]
              /\ j < Len(segments) => Len(segments[j].words) = arg[1]

\* Three words in groups of two: a full segment and a shorter last one.
C1_Witness ==
    /\ op = "get_segments" /\ arg = <<2>> /\ Len(words) = 3
    /\ Len(segments) = 2 /\ Len(segments[2].words) = 1

(***************************************************************************)
(* C2: the segments of get_sentence_segments, and of get_segments_v2       *)
(* called without a group size, are all non-empty and concatenate in       *)
(* order to exactly the transcript's words.                                *)
(***************************************************************************)
C2_SentenceSegmentsCover ==
    (op = "get_sentence_segments" \/ SentenceAwareV2) =>
        /\ \A j \in 1..Len(segments) : segments[j].words # <<>>
        /\ ConcatWords(segments) = words

\* A sentence followed by words that no mark closes.
C2_Witness ==
    /\ op \in {"get_sentence_segments", "get_segments_v2"} /\ arg = None
    /\ Len(words) = 3 /\ Len(segments) = 2
    /\ ~EndsSentence(words[3])

(***************************************************************************)
(* C3: in get_segments_v2 without a group size a segment is closed after   *)
(* a word if and only if the word ends with '.', '?' or '!': no segment    *)
(* boundary falls after a word ending in another character, and every      *)
(* word ending in one of the three marks is the last of its segment.       *)
(***************************************************************************)
C3_ClosesOnlyOnTerminalMarks ==
    SentenceAwareV2 =>
        \A i \in 1..Len(words) :
            /\ (i < Len(words) /\ i \in Boundaries(segments)) => EndsSentence(words[i])
            /\ EndsSentence(words[i]) => i \in Boundaries(segments)

(***************************************************************************)
(* C4: sentence-aware segmentation (get_segments_v2 without a group size   *)
(* and get_sentence_segments) of an empty transcript is empty; of a        *)
(* non-empty transcript without a word ending in '.', '?' or '!' it is     *)
(* one segment holding all the words; of [Hello(0.0-0.5), world.(0.5-1.0), *)
(* Bye.(1.0-1.3)] it is [Hello, world.] 0.0-1.0 and [Bye.] 1.0-1.3.        *)
(***************************************************************************)
ScenarioWords ==
    << WordTiming(Hello, 0, 5), WordTiming(World, 5, 10), WordTiming(Bye, 10, 13) >>

ScenarioSegments ==
    << [ words |-> SubSeq(ScenarioWords, 1, 2), start_time |-> 0, end_time |-> 10 ],
       [ words |-> SubSeq(ScenarioWords, 3, 3), start_time |-> 10, end_time |-> 13 ] >>

C4_SentenceEdgeCases ==
    (op = "get_sentence_segments" \/ SentenceAwareV2) =>
        /\ words = <<>> => segments = <<>>
        /\ (words # <<>> /\ \A i \in 1..Len(words) : ~EndsSentence(words[i])) =>
              segments = <<CaptionSegment(words)>>
        /\ words = ScenarioWords => segments = ScenarioSegments

(***************************************************************************)
(* Helpers of the karaoke properties                                       *)
(***************************************************************************)
\* The clip generate_captions made for word i of segment j.
Frame(j, i) == clips[WordsBefore(segments, j - 1) + i]

\* The whitespace-separated tokens of a text, in order.
RECURSIVE TokensFrom(_, _, _)
TokensFrom(s, k, token) ==
    IF k > Len(s)
    THEN IF token # <<>> THEN <<token>> ELSE <<>>
    ELSE IF s[k] \in Whitespace
    THEN (IF token # <<>> THEN <<token>> ELSE <<>>) \o TokensFrom(s, k + 1, <<>>)
    ELSE TokensFrom(s, k + 1, Append(token, s[k]))

Tokens(s) == TokensFrom(s, 1, <<>>)

\* What a clip shows, apart from when it shows it.
Rendering(clip) == [text |-> clip.text, color |-> clip.color]

(***************************************************************************)
(* C5: for every caption segment with k words the karaoke schedule holds   *)
(* exactly k frames in word order, frame i starting at word i's            *)
(* start_time and ending at its end_time; generate_captions returns one    *)
(* frame per transcript word, in transcript order.                         *)
(***************************************************************************)
C5_OneFramePerWord ==
    op = "generate_captions" =>
        /\ Len(clips) = WordsBefore(segments, Len(segments))
        /\ \A j \in 1..Len(segments) : \A i \in 1..Len(segments[j].words) :
              /\ Frame(j, i).start = segments[j].words[i].start_time
              /\ Frame(j, i).end = segments[j].words[i].end_time
        /\ Len(clips) = Len(words)
        /\ \A i \in 1..Len(words) :
              /\ clips[i].start = words[i].start_time
              /\ clips[i].end = words[i].end_time

\* Captions of three words in two segments, one word of zero duration.
C5_Witness ==
    /\ op = "generate_captions" /\ Len(words) = 3 /\ Len(segments) = 2
    /\ \E i \in 1..3 : words[i].start_time = words[i].end_time
    /\ Len(clips) = 3

(***************************************************************************)
(* C6: no karaoke frame has zero or negative duration: for a word whose    *)
(* start_time equals its end_time the schedule builder does not raise and  *)
(* emits a frame whose end is strictly greater than its start.             *)
(***************************************************************************)
C6_NoEmptyFrame ==
    op = "generate_captions" =>
        /\ error = "none"
        /\ Len(clips) = Len(words)
        /\ \A i \in 1..Len(clips) : clips[i].end > clips[i].start

(***************************************************************************)
(* C7: within every segment the karaoke frames exactly tile the segment's  *)
(* interval: the first frame starts at segment.start_time, each frame's    *)
(* end equals the next frame's start, and the last frame ends at           *)
(* segment.end_time (words ordered by start_time, end_time >= start_time). *)
(***************************************************************************)
WordsOrdered ==
    /\ \A i \in 1..Len(words) : words[i].end_time >= words[i].start_time
    /\ \A i \in 1..(Len(words) - 1) : words[i].start_time <= words[i + 1].start_time

C8_FramesMarkHighlightedWord ==
    op = "generate_captions" =>
        \A j \in 1..Len(segments) :
            LET k == Len(segments[j].words)
            IN  /\ \A a \in 1..k : Tokens(Frame(j, a).text) = Tokens(Join(segments[j].words))
                /\ \A a, b \in 1..k :
                      a # b => Rendering(Frame(j, a)) # Rendering(Frame(j, b))

(***************************************************************************)
(* C9: when the background source is at least as long as the target,       *)
(* prepare_background does not loop (loop count 0) and the prepared clip   *)
(* is the single trim [0, target_duration] of the source.                  *)
(***************************************************************************)
C9_TrimWithoutLoop ==
    (bg.pc = "prepared" /\ bg.source_duration >= bg.duration) =>
        /\ bg.plan.branch = "trim"
        /\ bg.plan.loops_needed = 0
        /\ bg.plan.looped_duration = bg.source_duration
        /\ bg.plan.trim = <<0, bg.duration>>
        /\ bg.plan.prepared_duration = bg.duration

\* A source exactly as long as the narration has been prepared.
C9_Witness ==
    /\ bg.pc = "prepared" /\ bg.source_duration = bg.duration
    /\ bg.plan.trim = <<0, bg.duration>>

(***************************************************************************)
(* C10: when the source is shorter than the target, the number of source   *)
(* copies prepare_background concatenates is ceil(target / source) for     *)
(* all positive durations, exact multiples included; 3 for source 10 and   *)
(* target 25.                                                              *)
(***************************************************************************)
Ceil(a, b) == (a + b - 1) \div b

C10_LoopCountIsCeiling ==
    (bg.pc = "prepared" /\ bg.loop /\ bg.source_duration < bg.duration) =>
        /\ bg.plan.branch = "loop"
        /\ bg.plan.loops_needed = Ceil(bg.duration, bg.source_duration)
        /\ (bg.source_duration = 10 /\ bg.duration = 25) => bg.plan.loops_needed = 3

(***************************************************************************)
(* C11: for every source_duration > 0 and target_duration > 0, with        *)
(* looping enabled, the looped material covers the target whenever         *)
(* looping is used (loop_count * source_duration >= target_duration) and   *)
(* the prepared background's duration equals target_duration.              *)
(***************************************************************************)
C11_LoopCoversTarget ==
    (bg.pc = "prepared" /\ bg.loop /\ bg.source_duration > 0 /\ bg.duration > 0) =>
        /\ bg.plan.branch \in {"trim", "loop"}
        /\ bg.plan.branch = "loop" =>
              /\ bg.plan.looped_duration = bg.plan.loops_needed * bg.source_duration
              /\ bg.plan.looped_duration >= bg.duration
        /\ bg.plan.trim = <<0, bg.duration>>
        /\ bg.plan.trim[2] <= bg.plan.looped_duration
        /\ bg.plan.prepared_duration = bg.duration

\* A source of 2 s looped for a narration of 3 s.
C11_Witness ==
    /\ bg.pc = "prepared" /\ bg.loop
    /\ bg.source_duration = 2 /\ bg.duration = 3
    /\ bg.plan.branch = "loop" /\ bg.plan.looped_duration = 4

(***************************************************************************)
(* C13: the crop removes material only from the relatively longer          *)
(* dimension, symmetrically about the centre: if w/h > W/H it keeps the    *)
(* full height and a centred band of width int(h*W/H), otherwise the full  *)
(* width and a centred band of height int(w*H/W); the crop rectangle lies  *)
(* inside the source frame and nothing is letterboxed.                     *)
(***************************************************************************)
C13_CropCentredInsideFrame ==
    bg.pc = "prepared" =>
        LET w == bg.size[1]
            h == bg.size[2]
            c == bg.crop
        IN  /\ IF w * VideoHeight > VideoWidth * h
               THEN /\ c.crop_h = h /\ c.y1_twice = 0 /\ c.y2_twice = 2 * h
                    /\ c.crop_w = (h * VideoWidth) \div VideoHeight
                    /\ c.crop_w < w
               ELSE /\ c.crop_w = w /\ c.x1_twice = 0 /\ c.x2_twice = 2 * w
                    /\ c.crop_h = (w * VideoHeight) \div VideoWidth
            \* inside the frame
            /\ c.crop_w <= w /\ c.crop_h <= h
            /\ 0 <= c.x1_twice /\ c.x2_twice <= 2 * w
            /\ 0 <= c.y1_twice /\ c.y2_twice <= 2 * h
            \* as much removed on one side as on the other
            /\ c.x1_twice = 2 * w - c.x2_twice
            /\ c.y1_twice = 2 * h - c.y2_twice
            /\ c.x2_twice - c.x1_twice = 2 * c.crop_w
            /\ c.y2_twice - c.y1_twice = 2 * c.crop_h
            \* the crop fills the whole output frame
            /\ bg.resized = <<VideoWidth, VideoHeight>>

\* A 1920x1080 source cropped at its sides to a band 607 wide (607.5
\* truncated), starting at x = 656.5.
C13_Witness ==
    /\ bg.pc = "prepared" /\ bg.size = <<1920, 1080>>
    /\ bg.crop.crop_w = 607 /\ bg.crop.x1_twice = 1313

(***************************************************************************)
(* C12: a background source whose duration is less than or equal to 0 is   *)
(* rejected with an error by prepare_background for every positive target  *)
(* duration (no prepared background comes out of it), and that error makes *)
(* the run of the story fail: process_story returns None and writes no     *)
(* video.                                                                  *)
(***************************************************************************)
C12_NonPositiveSourceRejected ==
    (bg.pc \in {"prepared", "raised"} /\ bg.source_duration <= 0) =>
        /\ bg.duration > 0
        /\ bg.pc = "raised"
        /\ pipe.pc = "done"
        /\ pipe.failed_stage = "Assemble"
        /\ pipe.outcome = "returned"
        /\ pipe.result = None
        /\ ~pipe.write_started
        /\ pipe.files[pipe.story_id].run # pipe.run

\* The file without frames chosen for a narration of 2 s.
C12_Witness ==
    /\ bg.pc = "raised" /\ bg.source_duration = 0 /\ bg.duration = 2
    /\ pipe.background = "v1" /\ pipe.failed_stage = "Assemble"
    /\ pipe.result = None

(***************************************************************************)
(* C14: in every run of process_story the stages are invoked in the order  *)
(* Simplify, Synthesize, Transcribe, SelectBackground, Assemble, each at   *)
(* most once, one at a time, and a stage is invoked only after every       *)
(* earlier stage of the run has returned without failing.                  *)
(***************************************************************************)
IsPrefix(s, t) == Len(s) <= Len(t) /\ s = SubSeq(t, 1, Len(s))

C14_StagesInOrder ==
    /\ IsPrefix(pipe.calls, StageOrder)
    /\ IsPrefix(pipe.finished, pipe.calls)
    /\ Len(pipe.calls) <= Len(pipe.finished) + 1
    /\ pipe.failed_stage # "none" =>
          /\ pipe.calls # <<>>
          /\ pipe.failed_stage = pipe.calls[Len(pipe.calls)]
          /\ pipe.finished = SubSeq(pipe.calls, 1, Len(pipe.calls) - 1)

\* A run that went through the five stages.
C14_Witness ==
    /\ pipe.calls = StageOrder
    /\ pipe.finished = StageOrder
    /\ pipe.pc = "done"

(***************************************************************************)
(* C15: when the LLM call fails (raises or gives an empty response) on     *)
(* every attempt, simplify_story does not raise and returns a record whose *)
(* simplified_text is the body of the story, whose status is not FAILED    *)
(* and whose error_message is set; process_story goes on to Synthesize     *)
(* with that text.                                                         *)
(***************************************************************************)
AllAttemptsFailed ==
    /\ Len(pipe.llm_log) = max_retries + 1
    /\ \A i \in 1..Len(pipe.llm_log) : pipe.llm_log[i] \in {"raise", "empty"}

C15_FallbackToOriginal ==
    AllAttemptsFailed =>
        /\ pipe.finished # <<>> /\ pipe.finished[1] = "Simplify"
        /\ pipe.failed_stage # "Simplify"
        /\ pipe.outcome # "raised"
        /\ pipe.processed.simplified_text = Body(pipe.story_id)
        /\ pipe.processed.status \notin {"FAILED", "none"}
        /\ pipe.processed.error_message # None
        /\ IF Len(pipe.calls) = 1
           THEN pipe.pc = "synthesize"
           ELSE /\ pipe.calls[2] = "Synthesize"
                /\ pipe.tts_text = Body(pipe.story_id)

\* Three failed attempts of both kinds, and the body handed to the
\* synthesizer.
C15_Witness ==
    /\ AllAttemptsFailed
    /\ pipe.llm_log[1] = "raise" /\ pipe.llm_log[3] = "empty"
    /\ Len(pipe.calls) >= 2
    /\ pipe.tts_text = Body(pipe.story_id)

(***************************************************************************)
(* C16: when Synthesize, Transcribe, SelectBackground or Assemble fails,   *)
(* no later stage of the run is invoked, process_story does not raise and  *)
(* it returns None.                                                        *)
(***************************************************************************)
FatalStages == {"Synthesize", "Transcribe", "SelectBackground", "Assemble"}

C16_FailureStopsRun ==
    pipe.failed_stage \in FatalStages =>
        /\ pipe.pc = "done"
        /\ pipe.calls # <<>>
        /\ pipe.calls[Len(pipe.calls)] = pipe.failed_stage
        /\ pipe.outcome = "returned"
        /\ pipe.result = None

\* A run stopped by the transcriber.
C16_Witness ==
    /\ pipe.failed_stage = "Transcribe"
    /\ pipe.calls = <<"Simplify", "Synthesize", "Transcribe">>
    /\ pipe.outcome = "returned" /\ pipe.result = None

(***************************************************************************)
(* C17: when a fatal stage fails, the record of the story is put in the    *)
(* FAILED status and the error detail of the failing stage is stored in    *)
(* it.                                                                     *)
(***************************************************************************)
C17_FailureRecorded ==
    pipe.failed_stage \in FatalStages =>
        /\ pipe.processed.status = "FAILED"
        /\ pipe.processed.error_message # None

(***************************************************************************)
(* C18: after a run whose Assemble stage failed while writing, that run    *)
(* has left no file at output_dir/<story_id>.mp4.                          *)
(***************************************************************************)
C18_NoPartialOutput ==
    (pipe.pc = "done" /\ pipe.failed_stage = "Assemble" /\ pipe.write_started) =>
        \/ pipe.files[pipe.story_id].state = "none"
        \/ pipe.files[pipe.story_id].run # pipe.run

(***************************************************************************)
(* C19: download_random is invoked only when no background acquired        *)
(* earlier is available, SelectBackground fails only when both the local   *)
(* selection and the download yield nothing, and a background acquired     *)
(* earlier is chosen only if it has not been used before.                  *)
(***************************************************************************)
C19_FallbackChain ==
    /\ pipe.pc = "download" => pipe.videos = {}
    /\ pipe.source = "download" => pipe.videos = {pipe.background}
    /\ pipe.failed_stage = "SelectBackground" =>
          pipe.videos = {} /\ pipe.source = "none"
    /\ pipe.source = "local" => ~pipe.reused

(***************************************************************************)
(* C20: a run for a story whose every stage completed in an earlier run    *)
(* makes no call of the LLM, the synthesizer, the transcriber, the         *)
(* background acquisition or the renderer, and returns the output path     *)
(* the earlier run stored.                                                 *)
(***************************************************************************)
C20_RerunIsIdempotent ==
    pipe.rerun =>
        /\ pipe.calls = <<>>
        /\ pipe.llm_log = <<>>
        /\ pipe.pc = "done" => pipe.result = OutputPath(pipe.story_id)

(***************************************************************************)
(* C21: constructing a WordTiming fails with a validation error whenever   *)
(* end_time < start_time or confidence is outside [0, 1], so that no such  *)
(* value is held by a Transcript or a CaptionSegment.                      *)
(***************************************************************************)
ValidWordTiming(w) ==
    /\ w.end_time >= w.start_time
    /\ 0 <= w.confidence /\ w.confidence <= 10

C21_InvalidWordTimingRejected ==
    /\ (call.pc # "raw" /\ ~ValidWordTiming(call)) => error = "ValidationError"
    /\ \A i \in 1..Len(words) : ValidWordTiming(words[i])
    /\ \A j \in 1..Len(segments) :
          \A i \in 1..Len(segments[j].words) : ValidWordTiming(segments[j].words[i])

(***************************************************************************)
(* C22: to_srt emits one block per segment of the default fixed-size       *)
(* segmentation (4 words), numbered from 1; reading the HH:MM:SS,mmm start *)
(* and end of a block back into seconds gives the segment's start_time and *)
(* end_time with an error below 1 ms, the minutes and seconds fields being *)
(* in 0..59 and the milliseconds in 0..999, for every non-negative time.   *)
(***************************************************************************)
DigitValue(c) == CHOOSE d \in 0..9 : Digit(d) = c

RECURSIVE FromDigits(_)
FromDigits(s) ==
    IF s = <<>> THEN 0
    ELSE 10 * FromDigits(SubSeq(s, 1, Len(s) - 1)) + DigitValue(s[Len(s)])

\* The pieces of s between the occurrences of the character sep.
RECURSIVE SplitAt(_, _, _, _)
SplitAt(s, sep, k, piece) ==
    IF k > Len(s) THEN <<piece>>
    ELSE IF s[k] = sep THEN <<piece>> \o SplitAt(s, sep, k + 1, <<>>)
    ELSE SplitAt(s, sep, k + 1, Append(piece, s[k]))

\* The fields of a timestamp HH:MM:SS,mmm.
ParseSrtTime(stamp) ==
    LET halves == SplitAt(stamp, ",", 1, <<>>)
        hms == SplitAt(halves[1], ":", 1, <<>>)
    IN  [ hours |-> FromDigits(hms[1]), minutes |-> FromDigits(hms[2]),
          secs |-> FromDigits(hms[3]), millis |-> FromDigits(halves[2]),
          shape |-> <<Len(halves), Len(hms), Len(hms[2]), Len(hms[3]), Len(halves[2])>> ]

\* The time a timestamp denotes, in ticks.
SrtTicks(f) ==
    (f.hours * 3600 + f.minutes * 60 + f.secs) * TicksPerSecond
        + f.millis * (TicksPerSecond \div 1000)

RecoversToMillisecond(stamp, t) ==
    LET f == ParseSrtTime(stamp)
    IN  /\ f.shape = <<2, 3, 2, 2, 3>>
        /\ f.minutes \in 0..59 /\ f.secs \in 0..59 /\ f.millis \in 0..999
        /\ SrtTicks(f) <= t
        /\ t - SrtTicks(f) < TicksPerSecond \div 1000

C22_SrtRoundTrip ==
    call.pc = "exported" =>
        /\ segments = get_segments(words, 4)
        /\ Len(call.lines) = 4 * Len(segments)
        /\ \A j \in 1..Len(segments) :
              LET stamps == SplitAt(call.lines[4 * j - 2], " ", 1, <<>>)
              IN  /\ call.lines[4 * j - 3] = ToDigits(j)
                  /\ Len(stamps) = 3
                  /\ stamps[2] = <<"-", "-", ">">>
                  /\ RecoversToMillisecond(stamps[1], segments[j].start_time)
                  /\ RecoversToMillisecond(stamps[3], segments[j].end_time)
                  /\ call.lines[4 * j - 1] = Join(segments[j].words)
                  /\ call.lines[4 * j] = <<>>

\* Five words exported as two blocks, the first from 0.0005 s to 59.9999 s
\* (written 00:00:00,000 --> 00:00:59,999).
C22_Witness ==
    /\ call.pc = "exported"
    /\ Len(words) = 5 /\ Len(segments) = 2
    /\ segments[1].start_time = 5 /\ segments[1].end_time = 599999
    /\ call.lines[2] = <<"0", "0", ":", "0", "0", ":", "0", "0", ",", "0", "0", "0",
                         " ", "-", "-", ">", " ",
                         "0", "0", ":", "0", "0", ":", "5", "9", ",", "9", "9", "9">>
    /\ call.lines[5] = <<"2">>

C24_CaptionsWithinAudio ==
    call.pc = "assembled" =>
        /\ words # <<>> => call.transcript_duration >= words[Len(words)].end_time
        /\ \A i \in 1..Len(clips) : clips[i].end <= call.target_duration

(***************************************************************************)
(* C25: when pipelines for different stories acquire background videos     *)
(* concurrently, no update of the persisted index is lost: once the        *)
(* acquisitions have completed, index.json holds the id of every video     *)
(* that was downloaded.                                                    *)
(***************************************************************************)
C25_NoLostIndexUpdate ==
    (\A d \in Downloaders : dl.inst[d].pc = "done") =>
        \A d \in Downloaders :
            dl.inst[d].metadata # "none" => dl.inst[d].metadata \in dl.index

Accepted(reply) == ~reply.raised /\ strip(reply.response) # <<>>

C29_SimplifiedTextNotEmpty ==
    (call.pc = "returned" /\ call.body # <<>>) =>
        call.result.simplified_text # <<>>


(***************************************************************************)
(* C30.  Every run of process_story ends in exactly one of two outcomes:   *)
(* Assembled (the output path is returned, the record has status           *)
(* ASSEMBLED and output_video_path set) or Failed (None is returned); a    *)
(* path is returned and the status is ASSEMBLED only when all five stages  *)
(* succeeded in the run, and a run whose story cannot be loaded ends       *)
(* Failed without invoking any stage.                                      *)
(***************************************************************************)
Assembled ==
    /\ pipe.outcome = "returned"
    /\ pipe.result # None
    /\ pipe.processed.status = "ASSEMBLED"
    /\ pipe.processed.output_video_path = pipe.result

Failed ==
    /\ pipe.outcome = "returned"
    /\ pipe.result = None

C30_AssembledOrFailed ==
    /\ pipe.pc = "done" => (Assembled /\ ~Failed) \/ (Failed /\ ~Assembled)
    /\ pipe.pc \notin {"idle", "done"} =>
           pipe.outcome = "running" /\ pipe.result = None
    /\ (pipe.result # None \/ pipe.processed.status = "ASSEMBLED") =>
           pipe.pc = "done" /\ pipe.finished = StageOrder
    /\ (pipe.outcome # "none" /\ pipe.story_id \notin Stories) =>
           pipe.pc = "done" /\ Failed /\ pipe.calls = <<>>

====
